---- MODULE Spec2Model ----
(***************************************************************************)
(* A model of the Minesweeper knowledge base of src/minesweeper.py:        *)
(* the board (Minesweeper), the sentences (Sentence) and the agent         *)
(* (MinesweeperAI) with add_knowledge, mark_mine, mark_safe,               *)
(* make_safe_move and make_random_move.                                    *)
(*                                                                         *)
(* A cell is a pair <<i, j>>.  A sentence is a record                      *)
(* [cells, count, is_mine].  The agent's knowledge is a function from the  *)
(* cells that have an entry in the dict self.knowledge to their sentence.  *)
(***************************************************************************)
EXTENDS Integers, FiniteSets, Sequences, TLC

\* Bounds of the model: board dimensions and area, mines on the board, and
\* the number of add_knowledge calls the caller makes.
MaxHeight == 4
MaxWidth == 4
MaxCells == 9
MaxMines == 2
MaxMoves == 4

\* Bounds of the specification in which the caller also calls mark_mine and
\* mark_safe itself: the board area, and the size of mines (of safes) up to
\* which the caller still calls mark_mine (mark_safe).
MaxCallCells == 4
MaxMarks == 1

\* make_random_move scans range(0,7) x range(0,7).
RandomRange == 7

VARIABLES
    height,      \* Minesweeper.height and MinesweeperAI.height
    width,       \* Minesweeper.width and MinesweeperAI.width
    board,       \* Minesweeper.mines: the cells that truly hold a mine
    moves_made,  \* MinesweeperAI.moves_made
    safes,       \* MinesweeperAI.safes
    mines,       \* MinesweeperAI.mines
    knowledge,   \* MinesweeperAI.knowledge: cell -> Sentence
    opened,      \* the cells the caller has passed to add_knowledge
    ret          \* the last call and what it returned

vars == <<height, width, board, moves_made, safes, mines, knowledge, opened, ret>>

\* Python's None, as a value comparable with a cell.
None == <<>>

Min(a, b) == IF a < b THEN a ELSE b

Max(a, b) == IF a > b THEN a ELSE b

\* The cells of a board of h rows and w columns.
BoardCells(h, w) == (0 .. h - 1) \X (0 .. w - 1)

\* Minesweeper.is_mine
is_mine_at(cell) == cell \in board

\* Minesweeper.nearby_mines: the mines within one row and one column of
\* cell, the cell itself excluded, clipped to the board.
nearby_mines(cell) ==
    Cardinality({n \in ((cell[1] - 1) .. (cell[1] + 1)) \X ((cell[2] - 1) .. (cell[2] + 1)) :
                    /\ n # cell
                    /\ 0 <= n[1] /\ n[1] < height
                    /\ 0 <= n[2] /\ n[2] < width
                    /\ n \in board})

\* Sentence.__init__
Sentence(cells, count, is_mine) ==
    [cells |-> cells, count |-> count, is_mine |-> is_mine]

\* Sentence.known_mines: the method body is "raise NotImplementedError".
\* The outcome of a call is the exception raised ("" for none) and the
\* value returned.
known_mines(sentence) == [raised |-> "NotImplementedError", value |-> {}]

\* Sentence.known_safes: the method body is "raise NotImplementedError".
known_safes(sentence) == [raised |-> "NotImplementedError", value |-> {}]

\* A variant of NeighborSeq whose ranges end one short: range(.., x+1) and
\* range(.., y+1).
NeighborSeqShort(cell) ==
    LET lo_i == Max(0, cell[1] - 1)
        hi_i == Min(width, cell[1] + 1)
        lo_j == Max(0, cell[2] - 1)
        hi_j == Min(height, cell[2] + 1)
        rows == Max(0, hi_i - lo_i)
        cols == Max(0, hi_j - lo_j)
    IN  [k \in 1 .. (rows * cols) |->
            <<lo_i + ((k - 1) \div cols), lo_j + ((k - 1) % cols)>>]

\* The cells add_knowledge visits for cell, in the order of its two nested
\* loops: i in range(max(0, x-1), min(width, x+2)),
\*        j in range(max(0, y-1), min(height, y+2)).
NeighborSeq(cell) ==
    LET lo_i == Max(0, cell[1] - 1)
        hi_i == Min(width, cell[1] + 2)
        lo_j == Max(0, cell[2] - 1)
        hi_j == Min(height, cell[2] + 2)
        rows == Max(0, hi_i - lo_i)
        cols == Max(0, hi_j - lo_j)
    IN  [k \in 1 .. (rows * cols) |->
            <<lo_i + ((k - 1) \div cols), lo_j + ((k - 1) % cols)>>]

\* MinesweeperAI.mark_safe on the agent state st.
mark_safe(st, cell) == [st EXCEPT !.safes = @ \cup {cell}]

\* The loops "for item in cells: self.mark_safe(item)" of add_knowledge.
RECURSIVE mark_safe_all(_, _)
mark_safe_all(st, cells) ==
    IF cells = {}
    THEN st
    ELSE LET item == CHOOSE c \in cells : TRUE
         IN  mark_safe_all(mark_safe(st, item), cells \ {item})

\* A variant of LoopBody without the "continue" of the is_mine branch: the
\* test that collects the cells of a sentence as mines runs in both branches.
LoopBodyNoContinue(acc, cell, is_mine, n) ==
    LET a1 == [acc EXCEPT !.neighbors = @ \cup {n}]
    IN  IF n \notin DOMAIN acc.st.knowledge
        THEN a1
        ELSE
          LET sentence == acc.st.knowledge[n]
              a2 == IF sentence.is_mine /\ acc.count # 0
                    THEN [a1 EXCEPT !.count = @ - 1]
                    ELSE a1
          IN  IF cell \notin sentence.cells
              THEN a2
              ELSE
                LET cells2 == sentence.cells \ {cell}
                    s2 == IF is_mine
                          THEN [sentence EXCEPT !.cells = cells2, !.count = @ - 1]
                          ELSE [sentence EXCEPT !.cells = cells2]
                    a3 == [a2 EXCEPT !.st.knowledge[n] = s2]
                    a4 == IF is_mine /\ s2.count = 0
                          THEN [a3 EXCEPT !.st = mark_safe_all(@, cells2)]
                          ELSE a3
                IN  IF Cardinality(cells2) = s2.count /\ Cardinality(cells2) > 0
                    THEN [a4 EXCEPT !.lmines = @ \cup cells2]
                    ELSE a4

\* One iteration of the loop body of add_knowledge for the neighbor n.
\* acc holds the agent state and the locals count, mines (lmines) and
\* neighbors.
LoopBody(acc, cell, is_mine, n) ==
    LET a1 == [acc EXCEPT !.neighbors = @ \cup {n}]
    IN  IF n \notin DOMAIN acc.st.knowledge
        THEN a1
        ELSE
          LET sentence == acc.st.knowledge[n]
              a2 == IF sentence.is_mine /\ acc.count # 0
                    THEN [a1 EXCEPT !.count = @ - 1]
                    ELSE a1
          IN  IF cell \notin sentence.cells
              THEN a2
              ELSE
                LET cells2 == sentence.cells \ {cell}
                IN  IF is_mine
                    THEN
                      LET s2 == [sentence EXCEPT !.cells = cells2, !.count = @ - 1]
                          a3 == [a2 EXCEPT !.st.knowledge[n] = s2]
                      IN  IF s2.count = 0
                          THEN [a3 EXCEPT !.st = mark_safe_all(@, cells2)]
                          ELSE a3
                    ELSE
                      LET a3 == [a2 EXCEPT !.st.knowledge[n].cells = cells2]
                      IN  IF Cardinality(cells2) = sentence.count /\ Cardinality(cells2) > 0
                          THEN [a3 EXCEPT !.lmines = @ \cup cells2]
                          ELSE a3

\* The two nested for loops of add_knowledge, from the k-th neighbor on.
RECURSIVE Loop(_, _, _, _, _)
Loop(acc, cell, is_mine, seq, k) ==
    IF k > Len(seq)
    THEN acc
    ELSE Loop(LoopBody(acc, cell, is_mine, seq[k]), cell, is_mine, seq, k + 1)

\* A variant of RecordMove that keeps known mines out of moves_made.
RecordMoveSkipMines(st, cell) ==
    IF cell \in st.mines THEN st ELSE [st EXCEPT !.moves_made = @ \cup {cell}]

\* self.moves_made.add(cell), the first statement of add_knowledge; it runs
\* for a cell the caller opened and for a cell mark_mine passes alike.
RecordMove(st, cell) == [st EXCEPT !.moves_made = @ \cup {cell}]

\* add_knowledge with line 234 reduced to "neighbors = neighbors - self.mines":
\* the cells of moves_made stay in the sentence it stores.
AddKnowledgeBodyKeepMoves(st, cell, count, is_mine) ==
    LET st1 == RecordMove(st, cell)
        acc == Loop([st |-> st1, count |-> count, lmines |-> {}, neighbors |-> {}],
                    cell, is_mine, NeighborSeq(cell), 1)
        neighbors == acc.neighbors \ acc.st.mines
        st2 == [acc.st EXCEPT !.knowledge =
                   [c \in (DOMAIN @) \cup {cell} |->
                       IF c = cell THEN Sentence(neighbors, acc.count, is_mine) ELSE @[c]]]
    IN  IF Cardinality(neighbors) = acc.count /\ acc.count # 0
        THEN [st |-> st2, lmines |-> acc.lmines \cup neighbors]
        ELSE IF acc.count = 0 /\ ~is_mine
             THEN [st |-> mark_safe_all(st2, neighbors), lmines |-> acc.lmines]
             ELSE [st |-> st2, lmines |-> acc.lmines]

\* add_knowledge up to and including the marking of safe cells: everything
\* before the final loop "for mine in mines: self.mark_mine(mine)".
\* Yields the agent state and the local set mines.
AddKnowledgeBody(st, cell, count, is_mine) ==
    LET st1 == RecordMove(st, cell)
        acc == Loop([st |-> st1, count |-> count, lmines |-> {}, neighbors |-> {}],
                    cell, is_mine, NeighborSeq(cell), 1)
        neighbors == (acc.neighbors \ acc.st.moves_made) \ acc.st.mines
        st2 == [acc.st EXCEPT !.knowledge =
                   [c \in (DOMAIN @) \cup {cell} |->
                       IF c = cell THEN Sentence(neighbors, acc.count, is_mine) ELSE @[c]]]
    IN  IF Cardinality(neighbors) = acc.count /\ acc.count # 0
        THEN [st |-> st2, lmines |-> acc.lmines \cup neighbors]
        ELSE IF acc.count = 0 /\ ~is_mine
             THEN [st |-> mark_safe_all(st2, neighbors), lmines |-> acc.lmines]
             ELSE [st |-> st2, lmines |-> acc.lmines]

\* MinesweeperAI.add_knowledge, MinesweeperAI.mark_mine and the loop
\* "for mine in mines: self.mark_mine(mine)".  Each yields the set of agent
\* states the call can end in: a Python set is iterated in an order the
\* program does not control, so every order of the for loop is a result.
RECURSIVE add_knowledge(_, _, _, _)
RECURSIVE mark_mine(_, _)
RECURSIVE MarkMines(_, _)

\* A variant of mark_mine that takes the cell out of safes.
mark_mine_unsafe(st, cell) ==
    add_knowledge([st EXCEPT !.mines = @ \cup {cell}, !.safes = @ \ {cell}], cell, 0, TRUE)

add_knowledge(st, cell, count, is_mine) ==
    LET b == AddKnowledgeBody(st, cell, count, is_mine)
    IN  MarkMines(b.st, b.lmines)

mark_mine(st, cell) ==
    add_knowledge([st EXCEPT !.mines = @ \cup {cell}], cell, 0, TRUE)

MarkMines(st, todo) ==
    IF todo = {}
    THEN {st}
    ELSE UNION {UNION {MarkMines(st2, todo \ {m}) : st2 \in mark_mine(st, m)} : m \in todo}

\* A variant of make_safe_move that does not subtract moves_made.
make_safe_move_any_safe(st) ==
    IF st.safes # {} THEN st.safes ELSE {None}

\* MinesweeperAI.make_safe_move: the cells it can return (random.sample
\* over safes - moves_made), or None.
make_safe_move(st) ==
    LET unexplored_safes == st.safes \ st.moves_made
    IN  IF unexplored_safes # {} THEN unexplored_safes ELSE {None}

\* The order of the two nested loops of make_random_move.
LexLeq(c, d) == c[1] < d[1] \/ (c[1] = d[1] /\ c[2] <= d[2])

\* MinesweeperAI.make_random_move: the first cell of
\* range(0,7) x range(0,7) that is not in moves_made, or None.
make_random_move(st) ==
    LET cand == ((0 .. RandomRange - 1) \X (0 .. RandomRange - 1)) \ st.moves_made
    IN  IF cand = {}
        THEN None
        ELSE CHOOSE c \in cand : \A d \in cand : LexLeq(c, d)

\* The agent's state as one record.
AI == [moves_made |-> moves_made, safes |-> safes, mines |-> mines,
       knowledge |-> knowledge]

NoCall == [op |-> "none", val |-> None]

\* Minesweeper.__init__ and MinesweeperAI.__init__.
Init ==
    /\ height \in 1 .. MaxHeight
    /\ width \in 1 .. MaxWidth
    /\ height * width <= MaxCells
    /\ board \in {b \in SUBSET BoardCells(height, width) : Cardinality(b) <= MaxMines}
    /\ moves_made = {}
    /\ safes = {}
    /\ mines = {}
    /\ knowledge = << >>
    /\ opened = {}
    /\ ret = NoCall

\* The caller opens a cell of the board that holds no mine and that it has
\* not opened before, and reports the board's count.
AddKnowledge ==
    /\ Cardinality(opened) < MaxMoves
    /\ \E cell \in {c \in BoardCells(height, width) : ~is_mine_at(c)} \ opened :
         \E st2 \in add_knowledge(AI, cell, nearby_mines(cell), FALSE) :
            /\ moves_made' = st2.moves_made
            /\ safes' = st2.safes
            /\ mines' = st2.mines
            /\ knowledge' = st2.knowledge
            /\ opened' = opened \cup {cell}
            /\ ret' = [op |-> "add_knowledge", val |-> None]
    /\ UNCHANGED <<height, width, board>>

MakeSafeMove ==
    /\ \E c \in make_safe_move(AI) : ret' = [op |-> "make_safe_move", val |-> c]
    /\ UNCHANGED <<height, width, board, moves_made, safes, mines, knowledge, opened>>

MakeRandomMove ==
    /\ ret' = [op |-> "make_random_move", val |-> make_random_move(AI)]
    /\ UNCHANGED <<height, width, board, moves_made, safes, mines, knowledge, opened>>

Next == AddKnowledge \/ MakeSafeMove \/ MakeRandomMove

Spec == Init /\ [][Next]_vars

\* The same program on square boards only, where the rows and columns that
\* add_knowledge clips to coincide with the board's.
InitSquare == Init /\ height = width

SpecSquare == InitSquare /\ [][Next]_vars

\* The agent's fields after a call that ends in state st and returns r.
Return(st, r) ==
    /\ moves_made' = st.moves_made
    /\ safes' = st.safes
    /\ mines' = st.mines
    /\ knowledge' = st.knowledge
    /\ ret' = r
    /\ UNCHANGED <<height, width, board, opened>>

\* The caller calls the public method mark_mine on a cell of the board.
MarkMineCall ==
    /\ Cardinality(mines) < MaxMarks
    /\ \E cell \in BoardCells(height, width) \ mines :
         \E st2 \in mark_mine(AI, cell) :
            Return(st2, [op |-> "mark_mine", val |-> None])

\* The caller calls the public method mark_safe on a cell of the board.
MarkSafeCall ==
    /\ Cardinality(safes) < MaxMarks
    /\ \E cell \in BoardCells(height, width) \ safes :
         Return(mark_safe(AI, cell), [op |-> "mark_safe", val |-> None])

NextCalls == Next \/ MarkMineCall \/ MarkSafeCall

\* Every public method of MinesweeperAI called by the caller, on the boards
\* of at most MaxCallCells cells.
InitCalls == Init /\ height * width <= MaxCallCells

SpecCalls == InitCalls /\ [][NextCalls]_vars

\* The caller passes to add_knowledge, a second time, a cell without a mine
\* that it has opened before, with the same count.
AddKnowledgeAgain ==
    \E cell \in {c \in opened : ~is_mine_at(c)} :
        \E st2 \in add_knowledge(AI, cell, nearby_mines(cell), FALSE) :
            Return(st2, [op |-> "add_knowledge_again", val |-> None])

\* The caller passes to add_knowledge a cell of the board that the agent
\* holds in mines.
AddKnowledgeOnKnownMine ==
    /\ Cardinality(opened) < MaxMoves
    /\ \E cell \in (mines \cap BoardCells(height, width)) \ opened :
         \E st2 \in add_knowledge(AI, cell, nearby_mines(cell), FALSE) :
            /\ moves_made' = st2.moves_made
            /\ safes' = st2.safes
            /\ mines' = st2.mines
            /\ knowledge' = st2.knowledge
            /\ opened' = opened \cup {cell}
            /\ ret' = [op |-> "add_knowledge", val |-> None]
    /\ UNCHANGED <<height, width, board>>

NextRepeat == Next \/ AddKnowledgeAgain

\* The program with a caller that repeats add_knowledge calls.
SpecRepeat == Init /\ [][NextRepeat]_vars

NextMisuse == Next \/ AddKnowledgeAgain \/ AddKnowledgeOnKnownMine

\* The program with a caller that breaks the contract of add_knowledge:
\* it repeats calls, and it passes cells known to be mines.
SpecMisuse == Init /\ [][NextMisuse]_vars

\* The caller calls known_mines on a stored sentence.
KnownMinesCall ==
    /\ \E c \in DOMAIN knowledge :
         ret' = [op |-> "known_mines", val |-> None, arg |-> knowledge[c],
                 result |-> known_mines(knowledge[c])]
    /\ UNCHANGED <<height, width, board, moves_made, safes, mines, knowledge, opened>>

\* The caller calls known_safes on a stored sentence.
KnownSafesCall ==
    /\ \E c \in DOMAIN knowledge :
         ret' = [op |-> "known_safes", val |-> None, arg |-> knowledge[c],
                 result |-> known_safes(knowledge[c])]
    /\ UNCHANGED <<height, width, board, moves_made, safes, mines, knowledge, opened>>

NextSentence == Next \/ KnownMinesCall \/ KnownSafesCall

\* The program with a caller that also queries the stored sentences, on the
\* boards of at most MaxCallCells cells.
SpecSentence == InitCalls /\ [][NextSentence]_vars

(***************************************************************************)
(* Properties.                                                             *)
(***************************************************************************)

\* C1: soundness. Every cell in mines is a true mine of the board and every
\* cell in safes is an in-board cell that holds no mine.
Soundness ==
    /\ mines \subseteq board
    /\ safes \subseteq (BoardCells(height, width) \ board)

\* C2: safes and mines are disjoint in every reachable state.
SafesMinesDisjoint == safes \cap mines = {}

\* C3: every cell the caller has passed to add_knowledge is in moves_made
\* and in safes, and moves_made is a subset of safes.
OpenedCellMarkedSafe ==
    /\ opened \subseteq moves_made
    /\ opened \subseteq safes
    /\ moves_made \subseteq safes

\* C4: every stored sentence, those stored by mark_mine included, has
\* 0 <= count <= |cells|.
SentenceCountBounds ==
    \A c \in DOMAIN knowledge :
        /\ 0 <= knowledge[c].count
        /\ knowledge[c].count <= Cardinality(knowledge[c].cells)

\* C5: after add_knowledge returns, no cell of a stored sentence is in safes
\* or in mines.
SentenceCellsUnresolved ==
    \A c \in DOMAIN knowledge : knowledge[c].cells \cap (safes \cup mines) = {}

\* The cells of a sentence whose status is not known, and the count that is
\* left for them once each known mine of the sentence is discounted.
RemainingCells(s) == s.cells \ (safes \cup mines)

RemainingCount(s) == s.count - Cardinality(s.cells \cap mines)

\* C6: fixpoint closure. For every sentence stored for an opened cell, after
\* discounting its cells in safes or mines: a remaining count of 0 leaves
\* only cells in safes, and a remaining count equal to the number of
\* remaining cells (> 0) leaves only cells in mines.
FixpointClosure ==
    \A c \in DOMAIN knowledge :
        ~knowledge[c].is_mine =>
            LET s == knowledge[c]
            IN  /\ RemainingCount(s) = 0 => RemainingCells(s) \subseteq safes
                /\ (RemainingCount(s) = Cardinality(RemainingCells(s)) /\ RemainingCount(s) > 0)
                      => RemainingCells(s) \subseteq mines

\* C7: subset inference. For stored sentences A, B of opened cells with
\* A.cells strictly inside B.cells: if B.count = A.count the cells of
\* B.cells - A.cells are in safes, and if B.count - A.count is the number of
\* those cells they are in mines.
SubsetInference ==
    \A a, b \in DOMAIN knowledge :
        (/\ ~knowledge[a].is_mine
         /\ ~knowledge[b].is_mine
         /\ knowledge[a].cells \subseteq knowledge[b].cells
         /\ knowledge[a].cells # knowledge[b].cells)
        => LET d == knowledge[b].cells \ knowledge[a].cells
               n == knowledge[b].count - knowledge[a].count
           IN  /\ n = 0 => d \subseteq safes
               /\ n = Cardinality(d) => d \subseteq mines

RandomMoveAvoidsMovesAndMines ==
    (ret.op = "make_random_move" /\ ret.val # None) =>
        (ret.val \notin moves_made /\ ret.val \notin mines)

\* make_random_move has returned a cell after passing over a known mine in
\* its scan.
RandomMovePassedKnownMine ==
    /\ ret.op = "make_random_move"
    /\ ret.val # None
    /\ \E m \in mines : LexLeq(m, ret.val)

\* C10: make_random_move returns an in-board cell whenever some in-board
\* cell is neither in moves_made nor in mines, and returns None only when
\* there is no such cell.
RandomMoveComplete ==
    ret.op = "make_random_move" =>
        LET avail == BoardCells(height, width) \ (moves_made \cup mines)
        IN  /\ avail # {} => ret.val \in BoardCells(height, width)
            /\ ret.val = None => avail = {}

\* C11: monotonicity. Across every call of add_knowledge, mark_mine,
\* mark_safe, make_safe_move and make_random_move, each of moves_made, safes
\* and mines in the next state contains the same set of the previous state.
Monotonicity ==
    [][/\ moves_made \subseteq moves_made'
       /\ safes \subseteq safes'
       /\ mines \subseteq mines']_vars

\* mark_mine has been called on a cell that was marked safe before, and the
\* cell is still in safes.
MarkedMineStillInSafes ==
    /\ ret.op = "mark_mine"
    /\ safes \cap mines # {}
    /\ moves_made # {}

\* C12: a repeated add_knowledge call for an opened cell, with the same
\* count, leaves moves_made, safes, mines and every stored sentence as they
\* were before the call.
RepeatIdempotent ==
    [][ret'.op = "add_knowledge_again" => AI' = AI]_vars

\* C13: an add_knowledge call for a cell that is in mines signals an error
\* and leaves moves_made, safes, mines and the stored sentences unchanged.
KnownMineRejected ==
    [][(\E c \in mines : c \in opened' \ opened)
          => (ret'.op = "error" /\ AI' = AI)]_vars

\* C14: known_mines returns the cells of the sentence when count = |cells|
\* and count > 0 and the empty set otherwise, known_safes returns the cells
\* when count = 0 and the empty set otherwise, and neither raises.
SentenceQueries ==
    /\ ret.op = "known_mines" =>
          /\ ret.result.raised = ""
          /\ ret.result.value =
                IF ret.arg.count = Cardinality(ret.arg.cells) /\ ret.arg.count > 0
                THEN ret.arg.cells ELSE {}
    /\ ret.op = "known_safes" =>
          /\ ret.result.raised = ""
          /\ ret.result.value = IF ret.arg.count = 0 THEN ret.arg.cells ELSE {}

\* The four corners of the 3x3 board, and the state in which exactly they
\* have been opened on a 3x3 board with the mines b.
Corners == {<<0, 0>>, <<0, 2>>, <<2, 0>>, <<2, 2>>}

CornersOpened(b) ==
    /\ height = 3
    /\ width = 3
    /\ board = b
    /\ opened = Corners

\* The cells within one row and one column of cell on the board, the cell
\* itself excluded.
Adjacent(cell) ==
    {n \in BoardCells(height, width) :
        /\ n # cell
        /\ n[1] - cell[1] \in -1 .. 1
        /\ n[2] - cell[2] \in -1 .. 1}

Range(seq) == {seq[k] : k \in DOMAIN seq}

\* C16: for every height and width and every cell of the board, the cells
\* add_knowledge iterates over are, apart from the cell itself, the cells
\* within one row and one column of it that lie on the board.
NeighbourComputation ==
    \A cell \in BoardCells(height, width) :
        Range(NeighborSeq(cell)) \ {cell} = Adjacent(cell)

\* The sentence add_knowledge(cell, count, False) constructs for cell in the
\* current state, before any mine it finds is marked.
NewSentence(cell, count) ==
    AddKnowledgeBody(AI, cell, count, FALSE).st.knowledge[cell]

\* C17: the sentence add_knowledge constructs for a cell the caller opens
\* has as cells the neighbours of the cell that are in neither safes nor
\* mines at the time of the call, and as count the incoming count minus the
\* number of neighbours that are in mines at the time of the call.
NewSentenceConstruction ==
    \A cell \in {c \in BoardCells(height, width) : ~is_mine_at(c)} \ opened :
        LET s == NewSentence(cell, nearby_mines(cell))
        IN  /\ s.cells = Adjacent(cell) \ (safes \cup mines)
            /\ s.count = nearby_mines(cell) - Cardinality(Adjacent(cell) \cap mines)

\* The calls mark_mine(s, m) that the loop "for mine in mines" makes when it
\* starts in the agent state st with the local set todo, as pairs <<s, m>>,
\* over every order of the loop.
RECURSIVE MarkMineCalls(_, _)
MarkMineCalls(st, todo) ==
    {<<st, m>> : m \in todo}
        \cup UNION {UNION {MarkMineCalls(st2, todo \ {m}) : st2 \in mark_mine(st, m)} : m \in todo}

\* The local set mines at the end of the call add_knowledge(m, 0, True)
\* that mark_mine(m) makes in the agent state st.
MinesCollectedByMarkMine(st, m) ==
    AddKnowledgeBody([st EXCEPT !.mines = @ \cup {m}], m, 0, TRUE).lmines

\* The counts the caller may pass for a cell: any count up to the number of
\* cells add_knowledge visits for it.
CallCounts(cell) == 0 .. Len(NeighborSeq(cell))

\* C18: in every call add_knowledge(cell, count, False) in a reachable
\* state, each call of mark_mine made in the course of it returns, and its
\* call add_knowledge(mine, 0, True) collects no mine, so that none calls
\* mark_mine again: the call of the caller returns.
PropagationTerminates ==
    \A cell \in {c \in BoardCells(height, width) : ~is_mine_at(c)} \ opened :
        \A count \in CallCounts(cell) :
            LET b == AddKnowledgeBody(AI, cell, count, FALSE)
            IN  \A p \in MarkMineCalls(b.st, b.lmines) :
                    /\ MinesCollectedByMarkMine(p[1], p[2]) = {}
                    /\ mark_mine(p[1], p[2]) # {}

\* add_knowledge has returned after a call of mark_mine in the course of it
\* found the mine in the sentence of another mine and decremented its count.
MineSentenceDecremented ==
    /\ ret.op = "add_knowledge"
    /\ \E m \in mines \cap DOMAIN knowledge :
         knowledge[m].is_mine /\ knowledge[m].count < 0

\* C19: every cell in mines is in moves_made and has an entry in knowledge
\* whose is_mine flag is True; no cell of safes - moves_made is in mines.
KnownMinesRecordedAsMoves ==
    /\ mines \subseteq moves_made
    /\ \A m \in mines : m \in DOMAIN knowledge /\ knowledge[m].is_mine
    /\ (safes \ moves_made) \cap mines = {}

\* C20: on a square board, after every add_knowledge call of the caller, no
\* sentence stored in knowledge contains a cell of moves_made, and the
\* sentence keyed by a cell contains only neighbours of that cell.
OpenedCellsPruned ==
    height = width =>
        \A k \in DOMAIN knowledge :
            /\ knowledge[k].cells \cap moves_made = {}
            /\ knowledge[k].cells \subseteq Adjacent(k)

\* A call has opened a cell next to a cell opened before it, and the
\* sentences of both still hold cells.
NeighbourSentencePruned ==
    /\ ret.op = "add_knowledge"
    /\ \E c \in opened : \E d \in opened \cap Adjacent(c) :
            /\ knowledge[c].cells # {}
            /\ knowledge[d].cells # {}

====
